---------------------------- MODULE Spec2Model ----------------------------
(***************************************************************************)
(* TaskManagerCLI (src/src): one invocation of task.py reads the task      *)
(* file, runs one command of commands.py on the lines, which calls the     *)
(* function of core.py of the same name, and rewrites the task file and    *)
(* appends to historique.txt.                                              *)
(*                                                                         *)
(* Text.  A Python str is a sequence of tokens.  The tokens ";", "," and   *)
(* " " are the three characters the code splits and strips on; every other *)
(* token is a maximal run of other characters (a word).  Fields are built  *)
(* as the f-strings build them and taken apart as split/strip take them    *)
(* apart.  A text holds no line break: the task file is the sequence of    *)
(* its lines.                                                              *)
(*                                                                         *)
(* Python's None is the empty sequence None and a present value x is the   *)
(* one-element sequence Some(x).                                           *)
(***************************************************************************)
EXTENDS Integers, Sequences, FiniteSets, TLC

VARIABLES
    exists,     \* the task file exists on disk
    file,       \* its lines, in order (<<>> when it does not exist)
    hist,       \* historique.txt: the entries appended so far, in order
    last        \* what the last invocation was given, returned and printed

vars == <<exists, file, hist, last>>

---------------------------------------------------------------------------
(* Bounds *)

\* entries of historique.txt after which a run of all the commands ends
MaxHist == 3

\* entries after which a run of add and rm ends
MaxHistIds == 4

\* entries after which a run of add and modify ends
MaxHistStatus == 3

---------------------------------------------------------------------------
(* Python values *)

None == <<>>
Some(x) == <<x>>
IsNone(o) == o = <<>>
Val(o) == o[1]

SEP == ";"
COMMA == ","
SP == " "

\* the str "None" that f"{None}" and the serializers write
NoneText == <<"None">>

\* status = "suspended" default
Suspended == <<"suspended">>

ValidStatus == {<<"started">>, <<"suspended">>, <<"completed">>, <<"cancelled">>}

---------------------------------------------------------------------------
(* str operations *)

\* str.strip(): drop the leading and trailing whitespace
RECURSIVE LStrip(_)
LStrip(t) == IF t # <<>> /\ Head(t) = SP THEN LStrip(Tail(t)) ELSE t

RECURSIVE RStrip(_)
RStrip(t) ==
    IF t # <<>> /\ t[Len(t)] = SP THEN RStrip(SubSeq(t, 1, Len(t) - 1)) ELSE t

Strip(t) == RStrip(LStrip(t))

\* str.split(sep): the fields between the separators; "" gives [""]
RECURSIVE SplitFrom(_, _, _)
SplitFrom(t, sep, cur) ==
    IF t = <<>> THEN <<cur>>
    ELSE IF Head(t) = sep THEN <<cur>> \o SplitFrom(Tail(t), sep, <<>>)
    ELSE SplitFrom(Tail(t), sep, Append(cur, Head(t)))

Split(t, sep) == SplitFrom(t, sep, <<>>)

\* sep.join(list)
RECURSIVE Join(_, _)
Join(l, sep) ==
    IF l = <<>> THEN <<>>
    ELSE IF Len(l) = 1 THEN l[1]
    ELSE l[1] \o <<sep>> \o Join(Tail(l), sep)

\* str(n) for the integers a run reaches
Numerals == <<"0", "1", "2", "3", "4", "5", "6", "7", "8", "9", "10", "11", "12">>

Str(n) == IF n < 0 THEN <<"-1">> ELSE <<Numerals[n + 1]>>

\* the words int() converts: the decimal numerals, and numerals with a
\* leading zero or a sign, which str() never writes
IntWords ==
    { <<Numerals[k], k - 1>> : k \in 1..Len(Numerals) }
        \cup { <<"01", 1>>, <<"02", 2>>, <<"-1", 0 - 1>>, <<"+1", 1>> }

\* int(s) does not raise ValueError
IsInt(t) == Len(Strip(t)) = 1 /\ \E p \in IntWords : p[1] = Strip(t)[1]

\* int(s)
IntVal(t) == (CHOOSE p \in IntWords : p[1] = Strip(t)[1])[2]

\* a digit of Unicode that is no decimal digit (U+00B2, superscript two):
\* str.isdigit() accepts it, int() raises ValueError on it
SuperscriptTwo == "sup2"

\* str.isdigit(): a non-empty run of digits, no sign, no blank
IsDigit(t) ==
    /\ Len(t) = 1
    /\ \/ \E p \in IntWords : p[1] = t[1] /\ t[1] \notin {"-1", "+1"}
       \/ t[1] = SuperscriptTwo

\* str.lower() of an operator's answer
Lower(w) == CASE w = "O" -> "o" [] w = "N" -> "n" [] OTHER -> w

---------------------------------------------------------------------------
(* core.parse_tasks *)

\* [label.strip() for label in parts[2].split(",") if label.strip()]
RECURSIVE StripAll(_)
StripAll(l) ==
    IF l = <<>> THEN <<>>
    ELSE IF Strip(Head(l)) = <<>> THEN StripAll(Tail(l))
    ELSE <<Strip(Head(l))>> \o StripAll(Tail(l))

ParseLabels(parts) ==
    IF Len(parts) >= 3 /\ parts[3] # NoneText
    THEN StripAll(Split(parts[3], COMMA))
    ELSE <<>>

ParseStatus(parts) ==
    IF Len(parts) >= 4 /\ Strip(parts[4]) # <<>>
    THEN Strip(parts[4])
    ELSE Suspended

ParseDep(parts) ==
    IF Len(parts) >= 5 /\ IsDigit(Strip(parts[5]))
    THEN Some(IntVal(Strip(parts[5])))
    ELSE None

\* the int() of the dependency field stands in the same try as the int() of
\* the id: its ValueError is caught by the same "except ValueError: continue"
DepRaises(parts) ==
    Len(parts) >= 5 /\ IsDigit(Strip(parts[5])) /\ ~IsInt(Strip(parts[5]))

\* the records one line adds to parsed_tasks: one or none
ParseLine(raw) ==
    LET line == Strip(raw)
        parts == Split(line, SEP)
    IN  IF line = <<>> THEN <<>>
        ELSE IF Len(parts) < 2 THEN <<>>
        ELSE IF ~IsInt(parts[1]) THEN <<>>
        ELSE IF DepRaises(parts) THEN <<>>
        ELSE << [id |-> IntVal(parts[1]),
                 desc |-> parts[2],
                 lab |-> ParseLabels(parts),
                 state |-> Some(ParseStatus(parts)),
                 dep |-> ParseDep(parts)] >>

RECURSIVE parse_tasks(_)
parse_tasks(tasks) ==
    IF tasks = <<>> THEN <<>>
    ELSE ParseLine(Head(tasks)) \o parse_tasks(Tail(tasks))

---------------------------------------------------------------------------
(* The serializer of commands.py *)

\* ",".join(lab) if lab else "None"
LabelsStr(lab) == IF lab # <<>> THEN Join(lab, COMMA) ELSE NoneText

\* dep if dep else "None", formatted
DepStr(dep) == IF ~IsNone(dep) /\ Val(dep) # 0 THEN Str(Val(dep)) ELSE NoneText

\* f"{status}": the text, or "None" for Python's None
StatusStr(state) == IF IsNone(state) THEN NoneText ELSE Val(state)

\* f"{tid};{desc};{labels_str};{status};{dep}"
SerializeTask(t) ==
    Str(t.id) \o <<SEP>> \o t.desc \o <<SEP>> \o LabelsStr(t.lab)
        \o <<SEP>> \o StatusStr(t.state) \o <<SEP>> \o DepStr(t.dep)

RECURSIVE SerializeAll(_)
SerializeAll(ts) ==
    IF ts = <<>> THEN <<>>
    ELSE <<SerializeTask(Head(ts))>> \o SerializeAll(Tail(ts))

---------------------------------------------------------------------------
(* Helpers over parsed_tasks *)

Ids(parsed) == { parsed[i].id : i \in 1..Len(parsed) }

MaxOf(S) == CHOOSE m \in S : \A x \in S : x <= m

\* the index the loop "for i, (tid, ...) in enumerate(parsed_tasks)" stops at
\* with "if tid == task_id: ... break": the first match, 0 when none matches
FirstIndex(parsed, tid) ==
    IF \E i \in 1..Len(parsed) : parsed[i].id = tid
    THEN CHOOSE i \in 1..Len(parsed) :
            /\ parsed[i].id = tid
            /\ \A j \in 1..(i - 1) : parsed[j].id # tid
    ELSE 0

\* what the operator types at a prompt instead of an answer: Ctrl+C
Interrupt == <<"^C">>

\* int(task_id) as a bug would leave it: outside a try, the ValueError ends
\* the function
NotNumericRaises ==
    [found |-> FALSE, tasks |-> <<>>, old |-> None, raised |-> "ValueError",
     notices |-> {}, asked |-> FALSE]

\* "except ValueError: return False, [], None" of int(task_id)
NotNumeric ==
    [found |-> FALSE, tasks |-> <<>>, old |-> None, raised |-> "",
     notices |-> {}, asked |-> FALSE]

---------------------------------------------------------------------------
(* core.add *)

\* new_id as a bug would compute it: the first id no record holds
NextIdFirstFree(parsed) ==
    CHOOSE n \in 1..(Len(parsed) + 1) :
        /\ n \notin Ids(parsed)
        /\ \A m \in 1..(n - 1) : m \in Ids(parsed)

\* new_id as a bug would compute it: the number of records, plus one
NextIdCount(parsed) == Len(parsed) + 1

\* new_id as a bug would compute it: the maximum, without the "+ 1"
NextIdStuck(parsed) == IF parsed # <<>> THEN MaxOf(Ids(parsed)) ELSE 1

NextId(parsed) == IF parsed # <<>> THEN MaxOf(Ids(parsed)) + 1 ELSE 1

\* the status check as a bug would leave it: any text is kept
CheckedStatusKept(status) == status

\* "if status not in [...]: status = 'suspended'"
CheckedStatus(status) == IF status \in ValidStatus THEN status ELSE Suspended

\* the loop on "Cette tache depend t-elle d'une autre tache ? O/N": the answer
\* that ends it ("o", "n", "int" for Ctrl+C, "eof" when the input ends) and
\* the input left
RECURSIVE AskYesNo(_)
AskYesNo(script) ==
    IF script = <<>> THEN [ans |-> "eof", rest |-> <<>>]
    ELSE IF Head(script) = Interrupt THEN [ans |-> "int", rest |-> Tail(script)]
    ELSE IF Len(Head(script)) = 1 /\ Lower(Head(script)[1]) \in {"o", "oui"}
         THEN [ans |-> "o", rest |-> Tail(script)]
    ELSE IF Len(Head(script)) = 1 /\ Lower(Head(script)[1]) \in {"n", "non"}
         THEN [ans |-> "n", rest |-> Tail(script)]
    ELSE AskYesNo(Tail(script))

\* the loop on "Laquelle ?": int(input()) until it is in id_list
RECURSIVE AskWhich(_, _)
AskWhich(script, id_list) ==
    IF script = <<>> THEN [ans |-> "eof", id |-> 0]
    ELSE IF Head(script) = Interrupt THEN [ans |-> "int", id |-> 0]
    ELSE IF IsInt(Head(script)) /\ IntVal(Head(script)) \in id_list
         THEN [ans |-> "id", id |-> IntVal(Head(script))]
    ELSE AskWhich(Tail(script), id_list)

\* parent_status: "suspended" unless a record with pid == id_dep is found
ParentStatus(parsed, id_dep) ==
    IF FirstIndex(parsed, id_dep) = 0 THEN Some(Suspended)
    ELSE parsed[FirstIndex(parsed, id_dep)].state

\* the status as a bug would leave it: no look at the chosen dependency
GatedStatusIgnored(parsed, status, id_dep) == status

\* the status after the check of the chosen dependency
GatedStatus(parsed, status, id_dep) ==
    IF status \in {<<"started">>, <<"completed">>}
       /\ ParentStatus(parsed, id_dep) # Some(<<"completed">>)
    THEN Suspended
    ELSE status

\* new_task_line
AddLine(new_id, details, labels_list, status, id_dep) ==
    Str(new_id) \o <<SEP>> \o details \o <<SEP>> \o LabelsStr(labels_list)
        \o <<SEP>> \o status \o <<SEP>>
        \o (IF IsNone(id_dep) THEN NoneText ELSE Str(Val(id_dep)))

\* core.add(tasks, details, labels, status) with the operator's input:
\* end is "ok", "cancelled" (the caught KeyboardInterrupt) or "eof"
core_add(tasks, details, labels, status, script) ==
    LET parsed_tasks == parse_tasks(tasks)
        new_id == NextId(parsed_tasks)
        labels_list == IF IsNone(labels) THEN <<>> ELSE Val(labels)
        st == CheckedStatus(status)
        yn == IF parsed_tasks # <<>> THEN AskYesNo(script)
              ELSE [ans |-> "n", rest |-> script]
        which == IF yn.ans = "o" THEN AskWhich(yn.rest, Ids(parsed_tasks))
                 ELSE [ans |-> "none", id |-> 0]
        id_dep == IF which.ans = "id" THEN Some(which.id) ELSE None
        st2 == IF which.ans = "id" THEN GatedStatus(parsed_tasks, st, which.id)
               ELSE st
        end == IF yn.ans \in {"int", "eof"} THEN yn.ans
               ELSE IF which.ans \in {"int", "eof"} THEN which.ans
               ELSE "ok"
    IN  [end |-> IF end = "int" THEN "cancelled" ELSE end,
         asked |-> parsed_tasks # <<>>,
         new_id |-> new_id,
         details |-> details,
         labels_list |-> labels_list,
         status |-> st2,
         id_dep |-> id_dep,
         line |-> AddLine(new_id, details, labels_list, st2, id_dep)]

---------------------------------------------------------------------------
(* core.modify *)

\* the status as a bug would compute it: a valid status that is given is
\* assigned without a look at the dependency
ModifyStateUngated(parsed, state, dep, new_status) ==
    IF ~IsNone(new_status) /\ Val(new_status) \in ValidStatus THEN new_status
    ELSE state

\* the status of the record the loop found, after "Mise a jour du statut":
\* the elif and the else hang on "if new_status is not None", so a status
\* that is given is only validated, and an absent one is assigned
ModifyState(parsed, state, dep, new_status) ==
    IF ~IsNone(new_status) THEN state
    ELSE IF new_status \in {Some(<<"started">>), Some(<<"completed">>)}
            /\ ~IsNone(dep)
    THEN IF FirstIndex(parsed, Val(dep)) # 0
            /\ parsed[FirstIndex(parsed, Val(dep))].state # Some(<<"completed">>)
         THEN state
         ELSE new_status
    ELSE new_status

\* the notices core.modify prints
ModifyNotices(parsed, dep, new_status) ==
    IF ~IsNone(new_status) /\ Val(new_status) \notin ValidStatus
    THEN {"invalid status"}
    ELSE {}

core_modify(tasks, task_id, new_details, new_status) ==
    IF ~IsInt(task_id)
    THEN NotNumeric
    ELSE
    LET parsed_tasks == parse_tasks(tasks)
        i == FirstIndex(parsed_tasks, IntVal(task_id))
    IN  IF i = 0
        THEN [found |-> FALSE, tasks |-> parsed_tasks, old |-> None,
              raised |-> "", notices |-> {}, asked |-> FALSE]
        ELSE
        LET t == parsed_tasks[i]
            new == [t EXCEPT
                      !.state = ModifyState(parsed_tasks, t.state, t.dep, new_status),
                      !.desc = IF IsNone(new_details) THEN t.desc
                               ELSE Val(new_details)]
        IN  [found |-> TRUE,
             tasks |-> [parsed_tasks EXCEPT ![i] = new],
             old |-> Some(t),
             raised |-> "",
             notices |-> ModifyNotices(parsed_tasks, t.dep, new_status),
             asked |-> FALSE]

---------------------------------------------------------------------------
(* core.rm *)

\* the filter as a bug would do it: it stops at the record it removes
RECURSIVE WithoutFrom(_, _)
WithoutFrom(parsed, tid) ==
    IF parsed = <<>> THEN <<>>
    ELSE IF Head(parsed).id # tid
         THEN <<Head(parsed)>> \o WithoutFrom(Tail(parsed), tid)
    ELSE <<>>

RECURSIVE Without(_, _)
Without(parsed, tid) ==
    IF parsed = <<>> THEN <<>>
    ELSE IF Head(parsed).id # tid THEN <<Head(parsed)>> \o Without(Tail(parsed), tid)
    ELSE Without(Tail(parsed), tid)

\* old_task is the last record the loop saw with tid == task_id
LastIndex(parsed, tid) ==
    CHOOSE i \in 1..Len(parsed) :
        /\ parsed[i].id = tid
        /\ \A j \in (i + 1)..Len(parsed) : parsed[j].id # tid

core_rm(tasks, task_id) ==
    IF ~IsInt(task_id)
    THEN [found |-> FALSE, tasks |-> parse_tasks(tasks), old |-> None,
          raised |-> "", notices |-> {}, asked |-> FALSE]
    ELSE
    LET parsed_tasks == parse_tasks(tasks)
        filtered_tasks == Without(parsed_tasks, IntVal(task_id))
        found == Len(filtered_tasks) < Len(parsed_tasks)
    IN  [found |-> found,
         tasks |-> filtered_tasks,
         old |-> IF found
                 THEN Some(parsed_tasks[LastIndex(parsed_tasks, IntVal(task_id))])
                 ELSE None,
         raised |-> "",
         notices |-> {}, asked |-> FALSE]

---------------------------------------------------------------------------
(* core.add_options *)

\* the merge as a bug would do it: every given label is appended
MergeLabelsAppend(new_lab, labels) == new_lab \o labels

\* "for label in labels: if label not in new_lab: new_lab.append(label)"
RECURSIVE MergeLabels(_, _)
MergeLabels(new_lab, labels) ==
    IF labels = <<>> THEN new_lab
    ELSE IF \E k \in 1..Len(new_lab) : new_lab[k] = Head(labels)
         THEN MergeLabels(new_lab, Tail(labels))
    ELSE MergeLabels(Append(new_lab, Head(labels)), Tail(labels))

\* the update as a bug would do it: a given dependency overwrites, unasked
NewDepOverwrites(dep, id_dep, script) ==
    [dep |-> IF IsNone(id_dep) THEN dep ELSE id_dep, raised |-> ""]

\* the update as a careful version would do it: a record that has no
\* dependency is given none
NewDepRefused(dep, id_dep, script) == [dep |-> dep, raised |-> ""]

\* the dependency after "Mise a jour de la dependance"; the prompt stands in
\* no try block, so Ctrl+C leaves core.add_options as a KeyboardInterrupt
NewDep(dep, id_dep, script) ==
    IF IsNone(id_dep) THEN [dep |-> dep, raised |-> ""]
    ELSE IF IsNone(dep) THEN [dep |-> id_dep, raised |-> ""]
    ELSE LET yn == AskYesNo(script)
         IN  IF yn.ans = "int" THEN [dep |-> dep, raised |-> "KeyboardInterrupt"]
             ELSE IF yn.ans = "eof" THEN [dep |-> dep, raised |-> "EOFError"]
             ELSE IF yn.ans = "o" THEN [dep |-> id_dep, raised |-> ""]
             ELSE [dep |-> dep, raised |-> ""]

core_add_options(tasks, task_id, labels, id_dep, script) ==
    IF ~IsInt(task_id)
    THEN NotNumeric
    ELSE
    LET parsed_tasks == parse_tasks(tasks)
        i == FirstIndex(parsed_tasks, IntVal(task_id))
    IN  IF i = 0
        THEN [found |-> FALSE, tasks |-> parsed_tasks, old |-> None,
              raised |-> "", notices |-> {}, asked |-> FALSE]
        ELSE
        LET t == parsed_tasks[i]
            new_lab == IF ~IsNone(labels) THEN MergeLabels(t.lab, Val(labels))
                       ELSE t.lab
            nd == NewDep(t.dep, id_dep, script)
            asked == ~IsNone(id_dep) /\ ~IsNone(t.dep)
        IN  IF nd.raised # ""
            THEN [found |-> FALSE, tasks |-> <<>>, old |-> None,
                  raised |-> nd.raised, notices |-> {}, asked |-> asked]
            ELSE [found |-> TRUE,
                  tasks |-> [parsed_tasks EXCEPT
                                ![i] = [t EXCEPT !.lab = new_lab, !.dep = nd.dep]],
                  old |-> Some(t),
                  raised |-> "",
                  notices |-> {},
                  asked |-> asked]

---------------------------------------------------------------------------
(* core.rmLabel, core.clearLabel, core.rmDep *)

\* the loop as a bug would run it: Ctrl+C is taken for the index 0
RECURSIVE AskIndexInterruptZero(_, _)
AskIndexInterruptZero(script, n) ==
    IF script = <<>> THEN [ans |-> "eof", n |-> 0]
    ELSE IF Head(script) = Interrupt THEN [ans |-> "n", n |-> 0]
    ELSE IF IsInt(Head(script)) /\ 0 <= IntVal(Head(script))
            /\ IntVal(Head(script)) < n
         THEN [ans |-> "n", n |-> IntVal(Head(script))]
    ELSE AskIndexInterruptZero(Tail(script), n)

\* the loop on "Entrez le numero de l'etiquette a supprimer"
RECURSIVE AskIndex(_, _)
AskIndex(script, n) ==
    IF script = <<>> THEN [ans |-> "eof", n |-> 0]
    ELSE IF Head(script) = Interrupt THEN [ans |-> "int", n |-> 0]
    ELSE IF IsInt(Head(script)) /\ 0 <= IntVal(Head(script))
            /\ IntVal(Head(script)) < n
         THEN [ans |-> "n", n |-> IntVal(Head(script))]
    ELSE AskIndex(Tail(script), n)

\* the pop as a bug would do it: the first label, whatever n
PopFirst(lab, n) == Tail(lab)

\* lab.pop(n), n counted from 0
Pop(lab, n) == SubSeq(lab, 1, n) \o SubSeq(lab, n + 2, Len(lab))

\* "return found, parsed_tasks, old_task" when the loop bound no old_task
Unbound ==
    [found |-> FALSE, tasks |-> <<>>, old |-> None,
     raised |-> "UnboundLocalError", notices |-> {}, asked |-> FALSE]

core_rmLabel(tasks, task_id, script) ==
    IF ~IsInt(task_id)
    THEN NotNumeric
    ELSE
    LET parsed_tasks == parse_tasks(tasks)
        i == FirstIndex(parsed_tasks, IntVal(task_id))
    IN  IF i = 0 THEN Unbound
        ELSE
        LET t == parsed_tasks[i]
            ask == AskIndex(script, Len(t.lab))
        IN  IF t.lab = <<>>
            THEN [found |-> TRUE, tasks |-> parsed_tasks, old |-> Some(t),
                  raised |-> "", notices |-> {"no labels"}, asked |-> FALSE]
            ELSE IF ask.ans = "int"
            THEN [found |-> FALSE, tasks |-> parsed_tasks, old |-> None,
                  raised |-> "", notices |-> {"cancelled"}, asked |-> TRUE]
            ELSE IF ask.ans = "eof"
            THEN [found |-> FALSE, tasks |-> <<>>, old |-> None,
                  raised |-> "EOFError", notices |-> {}, asked |-> TRUE]
            ELSE [found |-> TRUE,
                  tasks |-> [parsed_tasks EXCEPT
                                ![i] = [t EXCEPT !.lab = Pop(t.lab, ask.n)]],
                  old |-> Some(t),
                  raised |-> "",
                  notices |-> {},
                  asked |-> TRUE]

\* clearLabel as a bug would do it: one label dropped per call
core_clearLabelOne(tasks, task_id) ==
    IF ~IsInt(task_id)
    THEN NotNumeric
    ELSE
    LET parsed_tasks == parse_tasks(tasks)
        i == FirstIndex(parsed_tasks, IntVal(task_id))
    IN  IF i = 0 THEN Unbound
        ELSE [found |-> TRUE,
              tasks |-> [parsed_tasks EXCEPT
                            ![i] = [@ EXCEPT !.lab = IF @ = <<>> THEN <<>>
                                                     ELSE Tail(@)]],
              old |-> Some(parsed_tasks[i]),
              raised |-> "",
              notices |-> {}, asked |-> FALSE]

core_clearLabel(tasks, task_id) ==
    IF ~IsInt(task_id)
    THEN NotNumeric
    ELSE
    LET parsed_tasks == parse_tasks(tasks)
        i == FirstIndex(parsed_tasks, IntVal(task_id))
    IN  IF i = 0 THEN Unbound
        ELSE [found |-> TRUE,
              tasks |-> [parsed_tasks EXCEPT ![i] = [@ EXCEPT !.lab = <<>>]],
              old |-> Some(parsed_tasks[i]),
              raised |-> "",
              notices |-> {}, asked |-> FALSE]

\* rmDep as a bug would do it: the dependency of every record is removed
core_rmDepAll(tasks, task_id) ==
    IF ~IsInt(task_id)
    THEN NotNumeric
    ELSE
    LET parsed_tasks == parse_tasks(tasks)
        i == FirstIndex(parsed_tasks, IntVal(task_id))
    IN  IF i = 0 THEN Unbound
        ELSE [found |-> TRUE,
              tasks |-> [k \in 1..Len(parsed_tasks) |->
                            [parsed_tasks[k] EXCEPT !.dep = None]],
              old |-> Some(parsed_tasks[i]),
              raised |-> "",
              notices |-> {}, asked |-> FALSE]

core_rmDep(tasks, task_id) ==
    IF ~IsInt(task_id)
    THEN NotNumeric
    ELSE
    LET parsed_tasks == parse_tasks(tasks)
        i == FirstIndex(parsed_tasks, IntVal(task_id))
    IN  IF i = 0 THEN Unbound
        ELSE [found |-> TRUE,
              tasks |-> [parsed_tasks EXCEPT ![i] = [@ EXCEPT !.dep = None]],
              old |-> Some(parsed_tasks[i]),
              raised |-> "",
              notices |-> {}, asked |-> FALSE]

\* the lines commands.rmLabel writes: f"{dep}" without "dep if dep else"
SerializeTaskRmLabel(t) ==
    Str(t.id) \o <<SEP>> \o t.desc \o <<SEP>> \o LabelsStr(t.lab)
        \o <<SEP>> \o StatusStr(t.state) \o <<SEP>>
        \o (IF IsNone(t.dep) THEN NoneText ELSE Str(Val(t.dep)))

RECURSIVE SerializeAllRmLabel(_)
SerializeAllRmLabel(ts) ==
    IF ts = <<>> THEN <<>>
    ELSE <<SerializeTaskRmLabel(Head(ts))>> \o SerializeAllRmLabel(Tail(ts))

---------------------------------------------------------------------------
(* State *)

\* an invocation's record before it is filled in
Blank ==
    [cmd |-> "", id |-> <<>>, details |-> None, status |-> None,
     labels |-> None, depArg |-> None, script |-> <<>>,
     found |-> FALSE, old |-> None, res |-> <<>>, raised |-> "",
     notices |-> {}, new_id |-> 0, asked |-> FALSE,
     out |-> "", wrote |-> FALSE, logged |-> FALSE]

\* the record of an invocation of a command that calls core with a task id
Called(cmd, id, r, out, wrote) ==
    [Blank EXCEPT !.cmd = cmd, !.id = id, !.found = r.found, !.old = r.old,
                  !.res = r.tasks, !.raised = r.raised, !.notices = r.notices,
                  !.asked = r.asked,
                  !.out = out, !.wrote = wrote, !.logged = wrote]

\* an entry of historique.txt, without its timestamp
Entry(act, line) == [act |-> act, line |-> line]

\* the operator types when a prompt asks, as long as it asks, and not otherwise
Typed(script, asked, eof) == (script # <<>>) = asked /\ ~eof

\* task.py: "except FileNotFoundError" for every command but add and show
FileNotFound(cmd, id) ==
    /\ ~exists
    /\ last' = [Blank EXCEPT !.cmd = cmd, !.id = id, !.out = "file not found"]
    /\ UNCHANGED <<exists, file, hist>>

\* the message of a command that wrote nothing
Failure(r) == IF r.raised # "" THEN "traceback" ELSE "not found"

\* a command that found nothing, or was ended by an exception: no write
NoWrite(cmd, id, r) ==
    /\ last' = Called(cmd, id, r, Failure(r), FALSE)
    /\ UNCHANGED <<exists, file, hist>>

\* the rewrite as a bug would do it: no entry in historique.txt
RewriteUnlogged(r, lines, act) ==
    /\ file' = lines
    /\ UNCHANGED <<exists, hist>>

\* "with open(filename, 'w')" of the updated tasks, then the entry of old_task
Rewrite(r, lines, act) ==
    /\ file' = lines
    /\ hist' = Append(hist, Entry(act, SerializeTask(Val(r.old))))
    /\ UNCHANGED exists

Init ==
    /\ exists \in BOOLEAN
    /\ file = <<>>
    /\ hist = <<>>
    /\ last = Blank

---------------------------------------------------------------------------
(* The commands: task.py's dispatch, then commands.py *)

\* task.py add: on a missing file commands.add gets [] and no status
Add(details, labels, status, script) ==
    /\ LET st == IF exists /\ ~IsNone(status) THEN Val(status) ELSE Suspended
           r == core_add(file, details, labels, st, script)
           me == [Blank EXCEPT !.cmd = "add", !.details = Some(details),
                               !.labels = labels, !.status = status,
                               !.script = script, !.asked = r.asked]
       IN  /\ Typed(script, r.asked, r.end = "eof")
           /\ IF r.end = "cancelled"
              THEN /\ last' = [me EXCEPT !.out = "cancelled"]
                   /\ UNCHANGED <<exists, file, hist>>
              ELSE /\ hist' = Append(hist, Entry("added", r.line))
                   /\ file' = Append(file, r.line)
                   /\ exists' = TRUE
                   /\ last' = [me EXCEPT !.out = "added", !.new_id = r.new_id,
                                         !.found = TRUE,
                                         !.wrote = TRUE, !.logged = TRUE]

\* task.py modify: a description, a status or both
Modify(id, details, status) ==
    /\ LET r == core_modify(file, id, details, status)
           me(out, wrote) ==
               [Called("modify", id, r, out, wrote) EXCEPT
                   !.details = details, !.status = status]
           new == r.tasks[FirstIndex(r.tasks, Val(r.old).id)]
       IN  \/ /\ ~exists
              /\ last' = [Blank EXCEPT !.cmd = "modify", !.id = id,
                             !.details = details, !.status = status,
                             !.out = "file not found"]
              /\ UNCHANGED <<exists, file, hist>>
           \/ /\ exists
              /\ IsNone(details) /\ IsNone(status)
              /\ last' = [Blank EXCEPT !.cmd = "modify", !.id = id,
                             !.out = "nothing to modify"]
              /\ UNCHANGED <<exists, file, hist>>
           \/ /\ exists
              /\ ~(IsNone(details) /\ IsNone(status))
              /\ IF ~r.found
                 THEN /\ last' = me("not found", FALSE)
                      /\ UNCHANGED <<exists, file, hist>>
                 ELSE IF new = Val(r.old)
                 THEN /\ last' = me("no change", FALSE)
                      /\ UNCHANGED <<exists, file, hist>>
                 ELSE /\ last' = me("modified", TRUE)
                      /\ Rewrite(r, SerializeAll(r.tasks), "modified")

Rm(id) ==
    /\ LET r == core_rm(file, id)
       IN  \/ FileNotFound("rm", id)
           \/ /\ exists
              /\ IF r.found
                 THEN /\ last' = Called("rm", id, r, "removed", TRUE)
                      /\ Rewrite(r, SerializeAll(r.tasks), "removed")
                 ELSE NoWrite("rm", id, r)

\* task.py add_options: commands.add_options turns absent labels into []
AddOptions(id, labels, id_dep, script) ==
    /\ LET labels_list == IF IsNone(labels) THEN Some(<<>>) ELSE labels
           r == core_add_options(file, id, labels_list, id_dep, script)
           me(c) == [c EXCEPT !.labels = labels, !.depArg = id_dep,
                              !.script = script]
       IN  \/ /\ script = <<>>
              /\ FileNotFound("add_options", id)
           \/ /\ exists
              /\ Typed(script, r.asked, r.raised = "EOFError")
              /\ IF r.found
                 THEN /\ last' = me(Called("add_options", id, r, "options added", TRUE))
                      /\ Rewrite(r, SerializeAll(r.tasks), "label added")
                 ELSE /\ last' = me(Called("add_options", id, r, Failure(r), FALSE))
                      /\ UNCHANGED <<exists, file, hist>>

RmLabel(id, script) ==
    /\ LET r == core_rmLabel(file, id, script)
       IN  \/ /\ script = <<>>
              /\ FileNotFound("rmLabel", id)
           \/ /\ exists
              /\ Typed(script, r.asked, r.raised = "EOFError")
              /\ IF r.found
                 THEN /\ last' = [Called("rmLabel", id, r, "label removed", TRUE)
                                    EXCEPT !.script = script]
                      /\ Rewrite(r, SerializeAllRmLabel(r.tasks), "label removed")
                 ELSE /\ last' = [Called("rmLabel", id, r, Failure(r), FALSE)
                                    EXCEPT !.script = script]
                      /\ UNCHANGED <<exists, file, hist>>

ClearLabel(id) ==
    /\ LET r == core_clearLabel(file, id)
       IN  \/ FileNotFound("clearLabel", id)
           \/ /\ exists
              /\ IF r.found
                 THEN /\ last' = Called("clearLabel", id, r, "labels cleared", TRUE)
                      /\ Rewrite(r, SerializeAll(r.tasks), "labels cleared")
                 ELSE NoWrite("clearLabel", id, r)

RmDep(id) ==
    /\ LET r == core_rmDep(file, id)
       IN  \/ FileNotFound("rmDep", id)
           \/ /\ exists
              /\ IF r.found
                 THEN /\ last' = Called("rmDep", id, r, "dependence removed", TRUE)
                      /\ Rewrite(r, SerializeAll(r.tasks), "dependence removed")
                 ELSE NoWrite("rmDep", id, r)

\* sorted() as a bug would leave it: the order of the file
sorted_unsorted(parsed) == parsed

\* sorted(parsed_tasks, key=lambda x: x[0]): ascending ids, records of equal
\* id in the order they had (the sort is stable)
RECURSIVE sorted(_)
sorted(parsed) ==
    IF parsed = <<>> THEN <<>>
    ELSE LET m == CHOOSE m \in Ids(parsed) : \A x \in Ids(parsed) : m <= x
             k == FirstIndex(parsed, m)
         IN  <<parsed[k]>>
                 \o sorted(SubSeq(parsed, 1, k - 1)
                              \o SubSeq(parsed, k + 1, Len(parsed)))

\* core.show: the notice, or the rows of the table between its borders
core_show(tasks) ==
    LET parsed_tasks == parse_tasks(tasks)
    IN  IF parsed_tasks = <<>>
        THEN [out |-> "no tasks", rows |-> <<>>]
        ELSE [out |-> "table", rows |-> sorted(parsed_tasks)]

\* task.py show: commands.show(tasks), or the notice when the file is missing
Show ==
    /\ LET r == IF exists THEN core_show(file)
                ELSE [out |-> "no tasks", rows |-> <<>>]
       IN  last' = [Blank EXCEPT !.cmd = "show", !.res = r.rows, !.out = r.out]
    /\ UNCHANGED <<exists, file, hist>>

---------------------------------------------------------------------------
(* Runs of all the commands *)

\* the run has not reached n entries of historique.txt
Within(n) == Len(hist) < n

\* options.id: two ids a store can hold, and a text int() rejects
IdArgs == { <<"1">>, <<"2">>, <<"x">> }

\* ' '.join(options.details)
Milk == <<"milk">>
Eggs == <<"eggs">>

\* options.labels: absent, or a non-empty list
LabelArgs == { None, Some(<< <<"u">>, <<"v">> >>) }

\* what the operator types at the prompt of core.add, if it asks
AddScripts == { <<>>, << <<"n">> >>, << <<"O">>, <<"1">> >>, << Interrupt >> }

\* what the operator types at the prompt of core.add_options, if it asks
YesNoScripts == { <<>>, << <<"n">> >>, << <<"x">>, <<"oui">> >>, << Interrupt >> }

\* what the operator types at the prompt of core.rmLabel, if it asks
IndexScripts == { <<>>, << <<"1">> >>, << <<"7">>, <<"0">> >>, << Interrupt >> }

Next ==
    \/ \E l \in LabelArgs, sc \in AddScripts :
          Within(MaxHist) /\ Add(Milk, l, None, sc)
    \/ \E i \in IdArgs, d \in {None, Some(Eggs)} :
          Within(MaxHist) /\ Modify(i, d, None)
    \/ \E i \in IdArgs : Within(MaxHist) /\ Rm(i)
    \/ \E i \in IdArgs, l \in {None, Some(<< <<"u">> >>)}, dp \in {None, Some(1)},
          sc \in YesNoScripts :
          Within(MaxHist) /\ AddOptions(i, l, dp, sc)
    \/ \E i \in IdArgs, sc \in IndexScripts : Within(MaxHist) /\ RmLabel(i, sc)
    \/ \E i \in IdArgs : Within(MaxHist) /\ ClearLabel(i)
    \/ \E i \in IdArgs : Within(MaxHist) /\ RmDep(i)

Spec == Init /\ [][Next]_vars

---------------------------------------------------------------------------
(* Runs of add and rm *)

IdsIdArgs == { <<"1">>, <<"2">>, <<"3">>, <<"01">> }

NextIds ==
    \/ \E d \in {Milk, Eggs}, sc \in { <<>>, << <<"n">> >> } :
          Within(MaxHistIds) /\ Add(d, None, None, sc)
    \/ \E i \in IdsIdArgs : Within(MaxHistIds) /\ Rm(i)

SpecIds == Init /\ [][NextIds]_vars

---------------------------------------------------------------------------
(* Runs of add and modify, with statuses and dependencies *)

StatusIdArgs == { <<"1">>, <<"2">> }

AddStatusArgs == { None, Some(<<"started">>), Some(<<"completed">>) }

ModifyStatusArgs ==
    { None, Some(<<"started">>), Some(<<"completed">>), Some(<<"cancelled">>),
      Some(<<"bogus">>) }

NextStatus ==
    \/ \E s \in AddStatusArgs, sc \in AddScripts :
          Within(MaxHistStatus) /\ Add(Milk, None, s, sc)
    \/ \E i \in StatusIdArgs, d \in {None, Some(Eggs)}, s \in ModifyStatusArgs :
          Within(MaxHistStatus) /\ Modify(i, d, s)

SpecStatus == Init /\ [][NextStatus]_vars

---------------------------------------------------------------------------
(* Runs of add, with every status and a choice of dependency *)

MaxHistCreate == 3

\* options.status: absent, the four statuses, and a text that is none of them
CreateStatusArgs ==
    { None, Some(<<"started">>), Some(<<"suspended">>), Some(<<"completed">>),
      Some(<<"cancelled">>), Some(<<"bogus">>) }

\* what the operator types at the prompts of core.add: no dependency, a
\* dependency on record 1 or 2 after an answer that is refused, or Ctrl+C
CreateScripts ==
    { <<>>, << <<"n">> >>, << <<"o">>, <<"9">>, <<"1">> >>,
      << <<"x">>, <<"O">>, <<"2">> >>, << Interrupt >> }

NextCreate ==
    \E s \in CreateStatusArgs, sc \in CreateScripts :
        Within(MaxHistCreate) /\ Add(Milk, None, s, sc)

SpecCreate == Init /\ [][NextCreate]_vars

---------------------------------------------------------------------------
(* Runs of the commands on labels and dependencies *)

MaxHistLabels == 3

LabelIdArgs == { <<"1">>, <<"2">> }

\* options.labels of add: absent, a list that repeats a label, two labels
AddLabelArgs ==
    { None, Some(<< <<"u">>, <<"u">> >>), Some(<< <<"u">>, <<"v">> >>) }

\* options.labels of add_options: absent, a label twice, and a list whose
\* first label is new to a record labelled u while its second is not
OptionLabelArgs ==
    { None, Some(<< <<"u">>, <<"u">> >>), Some(<< <<"v">>, <<"u">>, <<"v">> >>) }

\* options.dependence
DepArgs == { None, Some(2) }

\* what the operator types at the prompt of core.rmLabel, if it asks
LabelIndexScripts ==
    { <<>>, << <<"1">> >>, << <<"x">>, <<"-1">>, <<"7">>, <<"0">> >>,
      << Interrupt >> }

NextLabels ==
    \/ \E l \in AddLabelArgs, sc \in { <<>>, << <<"n">> >>, << <<"O">>, <<"1">> >> } :
          Within(MaxHistLabels) /\ Add(Milk, l, None, sc)
    \/ \E i \in LabelIdArgs, l \in OptionLabelArgs, dp \in DepArgs,
          sc \in YesNoScripts :
          Within(MaxHistLabels) /\ AddOptions(i, l, dp, sc)
    \/ \E i \in LabelIdArgs, sc \in LabelIndexScripts :
          Within(MaxHistLabels) /\ RmLabel(i, sc)
    \/ \E i \in LabelIdArgs : Within(MaxHistLabels) /\ ClearLabel(i)

SpecLabels == Init /\ [][NextLabels]_vars

---------------------------------------------------------------------------
(* One record written by the serializer and read back by the parser *)

RecordDescs == { <<"milk">>, <<"buy", SP, "milk">>, <<"a", SEP, "b">> }

RecordLabels == { <<>>, << <<"u">> >>, << <<"u">>, <<"v">> >> }

\* the records of the data model: a positive id, a description, labels
\* without a duplicate, one of the four statuses, no dependency or an id
ValidRecords ==
    [id : {1, 2}, desc : RecordDescs, lab : RecordLabels,
     state : { Some(st) : st \in ValidStatus }, dep : {None, Some(1)}]

InitRecord ==
    /\ exists = FALSE
    /\ file = <<>>
    /\ hist = <<>>
    /\ \E rec \in ValidRecords :
          last = [Blank EXCEPT !.cmd = "record", !.old = Some(rec)]

\* the "with open(filename, 'w')" loop of commands.py on the one record
WriteRecord ==
    /\ last.cmd = "record"
    /\ file' = SerializeAll(<<Val(last.old)>>)
    /\ exists' = TRUE
    /\ last' = [last EXCEPT !.cmd = "written", !.wrote = TRUE]
    /\ UNCHANGED hist

\* the next invocation: f.readlines(), then core.parse_tasks
ReadRecord ==
    /\ last.cmd = "written"
    /\ last' = [last EXCEPT !.cmd = "read", !.res = parse_tasks(file)]
    /\ UNCHANGED <<exists, file, hist>>

NextRecord == WriteRecord \/ ReadRecord

SpecRecord == InitRecord /\ [][NextRecord]_vars

---------------------------------------------------------------------------
(* A task file of any lines, read by the parser *)

MaxLines == 2

\* lines of a task file: blank ones, one with a single field, one whose
\* first field is no integer, records of two and of five fields, padded or
\* not, and records whose fifth field is a digit that is no decimal digit
FileLines ==
    { <<>>,
      <<SP>>,
      <<"1">>,
      <<"x", SEP, "milk">>,
      <<"1", SEP, "milk">>,
      <<SP, "2", SP, SEP, "eggs", SEP, "u", SEP, "started", SEP, "1", SP>>,
      <<"3", SEP, "milk", SEP, "None", SEP, "suspended", SEP, "None">>,
      <<"3", SEP, "milk", SEP, "None", SEP, "suspended", SEP, SuperscriptTwo>> }

InitParse ==
    /\ exists = TRUE
    /\ file \in UNION { [1..n -> FileLines] : n \in 0..MaxLines }
    /\ hist = <<>>
    /\ last = [Blank EXCEPT !.cmd = "lines"]

\* f.readlines(), then core.parse_tasks(tasks)
ParseFile ==
    /\ last.cmd = "lines"
    /\ last' = [last EXCEPT !.cmd = "parsed", !.res = parse_tasks(file)]
    /\ UNCHANGED <<exists, file, hist>>

NextParse == ParseFile

SpecParse == InitParse /\ [][NextParse]_vars

---------------------------------------------------------------------------
(* A task file of records in any order, listed by show *)

MaxShowLines == 3

\* lines of a task file: a blank one, records of ids 1, 2 and 3, and a
\* second record of id 2
ShowLines ==
    { <<>>,
      <<"1", SEP, "milk", SEP, "u", SEP, "started", SEP, "None">>,
      <<"2", SEP, "eggs", SEP, "None", SEP, "suspended", SEP, "1">>,
      <<"2", SEP, "tea">>,
      <<"3", SEP, "milk", SEP, "None", SEP, "None", SEP, "None">> }

InitShow ==
    /\ exists \in BOOLEAN
    /\ file \in IF exists
                THEN UNION { [1..n -> ShowLines] : n \in 0..MaxShowLines }
                ELSE { <<>> }
    /\ hist = <<>>
    /\ last = Blank

NextShow == Show

SpecShow == InitShow /\ [][NextShow]_vars

---------------------------------------------------------------------------
(* Two invocations at once on the same task file *)

Procs == {1, 2}

\* the task file both invocations find
RaceFile ==
    << <<"1", SEP, "milk", SEP, "u", COMMA, "v", SEP, "suspended", SEP, "None">>,
       <<"2", SEP, "eggs", SEP, "None", SEP, "suspended", SEP, "1">> >>

\* the command of an invocation; each has the arguments RaceResult gives it
RaceOps ==
    {"add", "modify", "rm", "add_options", "rmLabel", "clearLabel", "rmDep"}

Tea == <<"tea">>

\* what core returns to the command, from the lines the invocation read:
\* add tea (no dependency), modify 1 eggs, rm 2, add_options 1 -l w,
\* rmLabel 1 (index 0), clearLabel 1, rmDep 2
RaceResult(op, tasks) ==
    CASE op = "add" -> core_add(tasks, Tea, None, Suspended, << <<"n">> >>)
      [] op = "modify" -> core_modify(tasks, <<"1">>, Some(Eggs), None)
      [] op = "rm" -> core_rm(tasks, <<"2">>)
      [] op = "add_options" ->
            core_add_options(tasks, <<"1">>, Some(<< <<"w">> >>), None, <<>>)
      [] op = "rmLabel" -> core_rmLabel(tasks, <<"1">>, << <<"0">> >>)
      [] op = "clearLabel" -> core_clearLabel(tasks, <<"1">>)
      [] op = "rmDep" -> core_rmDep(tasks, <<"2">>)

\* the command writes: an add always, the others "if found"
RaceFound(op, tasks) == op = "add" \/ RaceResult(op, tasks).found

\* the task file after the command's write, on a file that holds current:
\* add opens it with 'a' and appends its line, the others open it with 'w'
\* and write the store core returned
RaceWritten(op, tasks, current) ==
    CASE op = "add" -> Append(current, RaceResult(op, tasks).line)
      [] op = "rmLabel" -> SerializeAllRmLabel(RaceResult(op, tasks).tasks)
      [] OTHER -> SerializeAll(RaceResult(op, tasks).tasks)

\* the entry the command appends to historique.txt
RaceEntry(op, tasks) ==
    IF op = "add" THEN Entry("added", RaceResult(op, tasks).line)
    ELSE Entry(op, SerializeTask(Val(RaceResult(op, tasks).old)))

InitRace ==
    /\ exists = TRUE
    /\ file = RaceFile
    /\ hist = <<>>
    /\ \E ops \in [Procs -> RaceOps] :
          last = [cmd |-> "race", op |-> ops,
                  tasks |-> [p \in Procs |-> None], order |-> <<>>]

\* task.py: "with open(options.file, 'r') as f: tasks = f.readlines()"
RaceRead(p) ==
    /\ IsNone(last.tasks[p])
    /\ last' = [last EXCEPT !.tasks[p] = Some(file),
                            !.order = Append(@, [p |-> p, did |-> "read"])]
    /\ UNCHANGED <<exists, file, hist>>

\* commands.py: the command computes on what it read, then writes, or
\* prints that it found nothing
RaceWrite(p) ==
    /\ ~IsNone(last.tasks[p])
    /\ \A k \in 1..Len(last.order) : last.order[k] # [p |-> p, did |-> "write"]
    /\ IF RaceFound(last.op[p], Val(last.tasks[p]))
       THEN /\ file' = RaceWritten(last.op[p], Val(last.tasks[p]), file)
            /\ hist' = Append(hist, RaceEntry(last.op[p], Val(last.tasks[p])))
       ELSE UNCHANGED <<file, hist>>
    /\ last' = [last EXCEPT !.order = Append(@, [p |-> p, did |-> "write"])]
    /\ UNCHANGED exists

NextRace ==
    \/ \E p \in Procs : RaceRead(p)
    \/ \E p \in Procs : RaceWrite(p)

SpecRace == InitRace /\ [][NextRace]_vars

---------------------------------------------------------------------------
(* The module of three-field records, src/codes *)

\* codes/core.py parse_tasks: the records one line adds, (id, desc, labels)
codes_ParseLine(raw) ==
    LET line == Strip(raw)
        parts == Split(line, SEP)
    IN  IF line = <<>> THEN <<>>
        ELSE IF Len(parts) < 2 THEN <<>>
        ELSE IF ~IsInt(parts[1]) THEN <<>>
        ELSE << [id |-> IntVal(parts[1]),
                 desc |-> parts[2],
                 lab |-> ParseLabels(parts)] >>

RECURSIVE codes_parse_tasks(_)
codes_parse_tasks(tasks) ==
    IF tasks = <<>> THEN <<>>
    ELSE codes_ParseLine(Head(tasks)) \o codes_parse_tasks(Tail(tasks))

\* codes/core.py rm: "filtered_tasks = []" stands inside the loop, so after
\* the loop the list holds the last record, if it is not the one to remove;
\* with no record parsed filtered_tasks is unbound, and with found True and
\* no record of the id old_task is; values is the length of the tuple
\* returned
codes_rm(tasks, task_id) ==
    IF ~IsInt(task_id)
    THEN [found |-> FALSE, tasks |-> codes_parse_tasks(tasks), old |-> None,
          raised |-> "", values |-> 2]
    ELSE
    LET parsed_tasks == codes_parse_tasks(tasks)
        tid == IntVal(task_id)
        n == Len(parsed_tasks)
        filtered_tasks == IF parsed_tasks[n].id # tid THEN <<parsed_tasks[n]>>
                          ELSE <<>>
        found == Len(filtered_tasks) < n
        seen == tid \in Ids(parsed_tasks)
    IN  IF parsed_tasks = <<>> \/ (found /\ ~seen)
        THEN [found |-> FALSE, tasks |-> <<>>, old |-> None,
              raised |-> "UnboundLocalError", values |-> 0]
        ELSE [found |-> found,
              tasks |-> filtered_tasks,
              old |-> IF found
                      THEN Some(parsed_tasks[LastIndex(parsed_tasks, tid)])
                      ELSE None,
              raised |-> "",
              values |-> 3]

MaxCodesLines == 3

\* lines of a three-field task file, and one of the older two-field format
CodesLines ==
    { <<"1", SEP, "milk", SEP, "None">>,
      <<"2", SEP, "eggs", SEP, "u", COMMA, "v">>,
      <<"3", SEP, "tea">>,
      <<SP, "4", SEP, "milk", SEP, "u", SP>> }

\* the stores: files of lines with distinct ids
InitCodes ==
    /\ exists = TRUE
    /\ file \in { f \in UNION { [1..n -> CodesLines] : n \in 0..MaxCodesLines } :
                     \A j, k \in 1..Len(f) : j # k => f[j] # f[k] }
    /\ hist = <<>>
    /\ last = Blank

\* core.rm(tasks, task_id) of src/codes on the lines of the file
CodesRm(id) ==
    /\ last.cmd = ""
    /\ LET r == codes_rm(file, id)
       IN  last' = [Blank EXCEPT !.cmd = "codes rm", !.id = id,
                                 !.found = r.found, !.res = r.tasks,
                                 !.old = r.old, !.raised = r.raised]
    /\ UNCHANGED <<exists, file, hist>>

NextCodes == \E i \in { <<"1">>, <<"2">>, <<"4">>, <<"x">> } : CodesRm(i)

SpecCodes == InitCodes /\ [][NextCodes]_vars

---------------------------------------------------------------------------
(* What the claims speak of *)

\* the store: the records the next invocation parses from the task file
Store == parse_tasks(file)

\* the last invocation was an add that wrote its line
Added == last.cmd = "add" /\ last.out = "added"

\* the store the last add parsed: the file without the line it appended
StoreBeforeAdd == parse_tasks(SubSeq(file, 1, Len(file) - 1))

\* the id of the record an entry of historique.txt holds
EntryId(e) == IntVal(Split(e.line, SEP)[1])

\* the ids of the records removed so far
RemovedIds ==
    { EntryId(hist[k]) : k \in { j \in 1..Len(hist) : hist[j].act = "removed" } }

\* the commands that take a task id
IdCmds == {"modify", "rm", "add_options", "rmLabel", "clearLabel", "rmDep"}

\* the last invocation was a modify that found its record
Modified == last.cmd = "modify" /\ last.found

\* the record a found command returned as old_task, and what it made of it
OldRecord == Val(last.old)
NewRecord == last.res[FirstIndex(last.res, OldRecord.id)]

\* the store the last found command parsed
StoreBefore == [last.res EXCEPT ![FirstIndex(last.res, OldRecord.id)] = OldRecord]

\* the record the old record depends on is in the store
HasParent ==
    /\ ~IsNone(OldRecord.dep)
    /\ FirstIndex(StoreBefore, Val(OldRecord.dep)) # 0

Parent == StoreBefore[FirstIndex(StoreBefore, Val(OldRecord.dep))]

---------------------------------------------------------------------------
(* C1 *)

---------------------------------------------------------------------------
(* C2 *)

\* C2: an add assigns one plus the maximum id of the records parsed from the
\* file, or 1 when none is parsed, and writes it as the first field of its
\* line; on an empty store it asks nothing, and with no labels and no status
\* given its line is 1;<description>;None;suspended;None.
C2_NewIdIsMaxPlusOne ==
    Added =>
        /\ last.new_id = IF StoreBeforeAdd # <<>>
                         THEN 1 + MaxOf(Ids(StoreBeforeAdd))
                         ELSE 1
        /\ Split(file[Len(file)], SEP)[1] = Str(last.new_id)
        /\ StoreBeforeAdd = <<>> =>
              /\ ~last.asked
              /\ (IsNone(last.labels) /\ IsNone(last.status)) =>
                    file[Len(file)] =
                        <<"1", SEP>> \o Val(last.details)
                            \o <<SEP, "None", SEP, "suspended", SEP, "None">>

\* an add on a store whose highest id is above its number of records
C2_AddAboveCount ==
    /\ Added
    /\ StoreBeforeAdd # <<>>
    /\ last.new_id > Len(StoreBeforeAdd) + 1

---------------------------------------------------------------------------
(* C3 *)

\* C3: no two records of the store share an id.
C3_UniqueIds ==
    \A i, j \in 1..Len(Store) : i # j => Store[i].id # Store[j].id

\* a command rewrote a store of two records
C3_TwoRecordsRewritten ==
    /\ Len(Store) >= 2
    /\ last.cmd \in IdCmds
    /\ last.wrote

---------------------------------------------------------------------------
(* C4 *)

\* C4, as claimed: the line written for a valid record parses to that record.
C4_RoundTrip == last.cmd = "read" => last.res = <<OldRecord>>

---------------------------------------------------------------------------
(* C5 *)

\* C5, as claimed: a modify with one of the four statuses, on a record with no
\* dependency or with a completed one, leaves the record with that status.
C5_ModifySetsStatus ==
    ( /\ Modified
      /\ ~IsNone(last.status)
      /\ Val(last.status) \in ValidStatus
      /\ \/ IsNone(OldRecord.dep)
         \/ HasParent /\ Parent.state = Some(<<"completed">>) )
    => NewRecord.state = last.status

---------------------------------------------------------------------------
(* C6 *)

\* C6, as claimed: every record of the store has one of the four statuses.
C6_StatusDomain ==
    \A i \in 1..Len(Store) :
        /\ ~IsNone(Store[i].state)
        /\ Val(Store[i].state) \in ValidStatus

---------------------------------------------------------------------------
(* C7 *)

\* C7, as claimed: a modify with a description and no status changes the
\* description of the record and nothing else.
C7_DescriptionOnly ==
    (Modified /\ ~IsNone(last.details) /\ IsNone(last.status))
    => NewRecord = [OldRecord EXCEPT !.desc = Val(last.details)]

---------------------------------------------------------------------------
(* C8 *)

\* the last modify asked for started or completed on a record whose
\* dependency is in the store and is not completed
C8_Gated ==
    /\ Modified
    /\ last.status \in { Some(<<"started">>), Some(<<"completed">>) }
    /\ HasParent
    /\ Parent.state # Some(<<"completed">>)

\* C8: such a modify leaves the status as it was, in the store it returns
\* and in the file, and applies the description it was given.
C8_GateKeepsStatus ==
    C8_Gated =>
        /\ NewRecord.state = OldRecord.state
        /\ ~IsNone(last.details) => NewRecord.desc = Val(last.details)
        /\ LET onDisk == Store[FirstIndex(Store, OldRecord.id)]
           IN  /\ onDisk.state = OldRecord.state
               /\ ~IsNone(last.details) => onDisk.desc = Val(last.details)

\* a gated modify that was given a description and rewrote the file
C8_GatedWithDescription ==
    /\ C8_Gated
    /\ ~IsNone(last.details)
    /\ last.out = "modified"

---------------------------------------------------------------------------
(* C9 *)

\* C9, as claimed: a command given a numeric id that no record of the store
\* has returns found = False and the store as parsed, prints "not found",
\* and writes neither file.
C9_NotFoundStable ==
    [][ ( /\ exists
          /\ last'.cmd \in IdCmds
          /\ last'.out # "nothing to modify"
          /\ IsInt(last'.id)
          /\ IntVal(last'.id) \notin Ids(Store) )
        => ( /\ last'.raised = ""
             /\ ~last'.found
             /\ last'.res = Store
             /\ last'.out = "not found"
             /\ file' = file
             /\ hist' = hist ) ]_vars

---------------------------------------------------------------------------
(* C10 *)

\* C10: a command given an id that is no number returns found = False,
\* prints "not found", and leaves the task file and historique.txt as they
\* were.
C10_NonNumericNotFound ==
    [][ ( /\ exists
          /\ last'.cmd \in IdCmds
          /\ last'.out # "nothing to modify"
          /\ ~IsInt(last'.id) )
        => ( /\ last'.raised = ""
             /\ ~last'.found
             /\ last'.out = "not found"
             /\ exists' = exists
             /\ file' = file
             /\ hist' = hist ) ]_vars

\* a command was given a text that is no number, on a store with a record
C10_NonNumericOnStore ==
    /\ last.cmd \in IdCmds
    /\ ~IsInt(last.id)
    /\ last.out = "not found"
    /\ Store # <<>>

---------------------------------------------------------------------------
(* C11 *)

\* the record the last add appended, and the record it depends on
NewAdded == Store[Len(Store)]
AddedParent == StoreBeforeAdd[FirstIndex(StoreBeforeAdd, Val(NewAdded.dep))]

\* the last add was given one of the four statuses and the operator chose a
\* record of the store as its dependency
C11_AddedWithDependency ==
    /\ Added
    /\ ~IsNone(last.status)
    /\ Val(last.status) \in ValidStatus
    /\ ~IsNone(NewAdded.dep)
    /\ Val(NewAdded.dep) \in Ids(StoreBeforeAdd)

\* C11: an add with a chosen dependency D and a requested status of started
\* or completed writes the requested status if D is completed and suspended
\* otherwise; a requested suspended or cancelled is written as it is.
C11_CreateGate ==
    C11_AddedWithDependency =>
        NewAdded.state =
            IF last.status \in { Some(<<"started">>), Some(<<"completed">>) }
               /\ AddedParent.state # Some(<<"completed">>)
            THEN Some(Suspended)
            ELSE last.status

\* an add that asked for started with a dependency on a completed record,
\* after an add that asked for it with a dependency that was not
C11_GateOpen ==
    /\ C11_AddedWithDependency
    /\ last.status = Some(<<"started">>)
    /\ AddedParent.state = Some(<<"completed">>)
    /\ NewAdded.state = Some(<<"started">>)

---------------------------------------------------------------------------
(* C12 *)

\* the last add went through with no status, or with a text that is none of
\* the four statuses
C12_NoValidStatus ==
    /\ Added
    /\ \/ IsNone(last.status)
       \/ Val(last.status) \notin ValidStatus

\* C12: such an add appends one record, with the new id and the status
\* suspended.
C12_FallsBackToSuspended ==
    C12_NoValidStatus =>
        /\ Len(Store) = Len(StoreBeforeAdd) + 1
        /\ NewAdded.id = last.new_id
        /\ NewAdded.state = Some(Suspended)
        /\ hist[Len(hist)] = Entry("added", file[Len(file)])

\* an add with a status that is none of the four, on a store with a record
C12_InvalidStatusAdded ==
    /\ C12_NoValidStatus
    /\ ~IsNone(last.status)
    /\ StoreBeforeAdd # <<>>

---------------------------------------------------------------------------
(* C13 *)

\* C13, as claimed: no record of the store holds the same label twice.
C13_NoDuplicateLabels ==
    \A i \in 1..Len(Store) :
        \A j, k \in 1..Len(Store[i].lab) :
            j # k => Store[i].lab[j] # Store[i].lab[k]

---------------------------------------------------------------------------
(* C14 *)

\* the last invocation was an add_options that found its record
OptionsAdded == last.cmd = "add_options" /\ last.found

\* the labels the last invocation was given
GivenLabels == IF IsNone(last.labels) THEN <<>> ELSE Val(last.labels)

\* the place of the first occurrence of a label in a list that holds it
FirstAt(l, x) ==
    CHOOSE k \in 1..Len(l) : l[k] = x /\ \A j \in 1..(k - 1) : l[j] # x

\* new is old, then the labels of given that old lacks, each once, in the
\* order of their first occurrence in given
MergedInOrder(old, given, new) ==
    /\ Len(new) >= Len(old)
    /\ SubSeq(new, 1, Len(old)) = old
    /\ LET extra == SubSeq(new, Len(old) + 1, Len(new))
       IN  /\ { extra[k] : k \in 1..Len(extra) }
                 = { given[k] : k \in 1..Len(given) }
                      \ { old[k] : k \in 1..Len(old) }
           /\ \A a, b \in 1..Len(extra) :
                 a < b => FirstAt(given, extra[a]) < FirstAt(given, extra[b])

\* the record of the last found command as the task file now holds it
OnDisk == Store[FirstIndex(Store, OldRecord.id)]

\* C14: an add_options leaves the record with its previous labels in their
\* order, followed by the given labels it lacked, each once, in the order of
\* their first occurrence in the argument; the file holds the same list.
C14_LabelsMerged ==
    OptionsAdded =>
        /\ MergedInOrder(OldRecord.lab, GivenLabels, NewRecord.lab)
        /\ OnDisk.lab = NewRecord.lab

\* labels [u, u] given to a record with no label left it with [u], and a
\* list given to a labelled record added only what the record lacked
C14_RepeatedLabelOnce ==
    /\ OptionsAdded
    /\ GivenLabels = << <<"u">>, <<"u">> >>
    /\ OldRecord.lab = <<>>
    /\ NewRecord.lab = << <<"u">> >>

---------------------------------------------------------------------------
(* C15 *)

\* the answer that ended the O/N prompt of the last invocation was a yes
Accepted ==
    LET sc == last.script
        Answer(t) == Len(t) = 1 /\ Lower(t[1]) \in {"o", "oui", "n", "non"}
        k == CHOOSE k \in 1..Len(sc) :
                 Answer(sc[k]) /\ \A j \in 1..(k - 1) : ~Answer(sc[j])
    IN  Lower(sc[k][1]) \in {"o", "oui"}

\* C15: an add_options with a dependency sets it without a prompt on a
\* record that has none; on a record that has one it asks, keeps the old one
\* on a no and sets the new one on a yes; the labels given are merged in all
\* three cases, and the file holds the result.
C15_DependencyUpdated ==
    (OptionsAdded /\ ~IsNone(last.depArg)) =>
        /\ IF IsNone(OldRecord.dep)
           THEN ~last.asked /\ NewRecord.dep = last.depArg
           ELSE /\ last.asked
                /\ NewRecord.dep = IF Accepted THEN last.depArg
                                   ELSE OldRecord.dep
        /\ MergedInOrder(OldRecord.lab, GivenLabels, NewRecord.lab)
        /\ OnDisk.dep = NewRecord.dep
        /\ OnDisk.lab = NewRecord.lab

\* the operator said no to the overwrite of a dependency by another one, in
\* a call that gave a label the record lacked
C15_DeclinedWithLabels ==
    /\ OptionsAdded
    /\ ~IsNone(last.depArg)
    /\ ~IsNone(OldRecord.dep)
    /\ OldRecord.dep # last.depArg
    /\ ~Accepted
    /\ NewRecord.dep = OldRecord.dep
    /\ Len(NewRecord.lab) > Len(OldRecord.lab)

---------------------------------------------------------------------------
(* C16 *)

\* C16, as claimed: the dependency an add or an add_options sets is the id
\* of a record of the store the command parsed.
C16_DependencyExists ==
    /\ (Added /\ ~IsNone(NewAdded.dep)) =>
          Val(NewAdded.dep) \in Ids(StoreBeforeAdd)
    /\ ( /\ OptionsAdded
         /\ ~IsNone(last.depArg)
         /\ IsNone(OldRecord.dep) \/ Accepted )
       => Val(NewRecord.dep) \in Ids(StoreBefore)

---------------------------------------------------------------------------
(* C17 *)

\* the last invocation was an rmLabel that found its record
LabelRemoved == last.cmd = "rmLabel" /\ last.found

\* an entry the prompt of rmLabel accepts for a list of n labels
ValidIndex(t, n) == IsInt(t) /\ 0 <= IntVal(t) /\ IntVal(t) < n

\* l without its n-th label, n counted from 0
WithoutNth(l, n) ==
    [k \in 1..(Len(l) - 1) |-> IF k <= n THEN l[k] ELSE l[k + 1]]

---------------------------------------------------------------------------
(* C18 *)

\* the last invocation was a clearLabel that found its record
LabelsCleared == last.cmd = "clearLabel" /\ last.found

\* C18: a clearLabel leaves its record with no label and its other fields
\* as they were, and the file holds the store it returned; a second
\* clearLabel of the same id on that file finds the record and returns, and
\* would write, the same store.
C18_ClearTwiceIsClearOnce ==
    LabelsCleared =>
        /\ NewRecord = [OldRecord EXCEPT !.lab = <<>>]
        /\ Store = last.res
        /\ LET again == core_clearLabel(file, last.id)
           IN  /\ again.found
               /\ again.tasks = Store
               /\ SerializeAll(again.tasks) = file

\* a clearLabel of a record with two labels, in a store of two records
C18_TwoLabelsCleared ==
    /\ LabelsCleared
    /\ Len(OldRecord.lab) = 2
    /\ Len(Store) = 2

---------------------------------------------------------------------------
(* C19 *)

\* C19: an rm of the id of a record of the store returns, and writes, the
\* store without that record, the other records as they were and in their
\* order; an rm of the same id on the file it wrote finds nothing and returns
\* that store, and an rm of the same id right after prints "not found" and
\* writes neither file.
C19_RemovedOnce ==
    [][ /\ ( /\ exists
             /\ last'.cmd = "rm"
             /\ IsInt(last'.id)
             /\ IntVal(last'.id) \in Ids(Store) )
           => LET Kept(t) == t.id # IntVal(last'.id)
                  rest == SelectSeq(Store, Kept)
                  again == core_rm(file', last'.id)
              IN  /\ last'.found
                  /\ last'.out = "removed"
                  /\ last'.res = rest
                  /\ parse_tasks(file') = rest
                  /\ ~again.found
                  /\ again.tasks = rest
        /\ ( /\ last.cmd = "rm"
             /\ last.out = "removed"
             /\ last'.cmd = "rm"
             /\ last'.id = last.id )
           => /\ ~last'.found
              /\ last'.out = "not found"
              /\ last'.res = Store
              /\ file' = file
              /\ hist' = hist ]_vars

\* an rm removed the first of two records
C19_FirstOfTwoRemoved ==
    /\ last.cmd = "rm"
    /\ last.out = "removed"
    /\ Store # <<>>
    /\ OldRecord.id < Store[1].id

---------------------------------------------------------------------------
(* C20 *)

\* a line with at least two fields whose first field is an integer
GoodLine(l) ==
    /\ Strip(l) # <<>>
    /\ Len(Split(Strip(l), SEP)) >= 2
    /\ IsInt(Split(Strip(l), SEP)[1])

\* C20, as claimed: the parser returns one record for each line that has at
\* least two fields and an integer first field, in the order of the file,
\* and nothing for the other lines.
C20_OneRecordPerGoodLine ==
    last.cmd = "parsed" =>
        LET good == SelectSeq(file, GoodLine)
        IN  /\ Len(last.res) = Len(good)
            /\ \A k \in 1..Len(good) :
                  /\ last.res[k].id = IntVal(Split(Strip(good[k]), SEP)[1])
                  /\ last.res[k].desc = Split(Strip(good[k]), SEP)[2]

---------------------------------------------------------------------------
(* C21 *)

\* the number of places a record holds in a list
Count(l, r) == Cardinality({ k \in 1..Len(l) : l[k] = r })

\* C21: show lists the records of the store, each as often as the store
\* holds it, by ascending id, and writes neither the task file nor
\* historique.txt; on a store with no record it prints the notice and no row.
C21_ShowSorted ==
    [][ last'.cmd = "show" =>
          /\ exists' = exists /\ file' = file /\ hist' = hist
          /\ Len(last'.res) = Len(Store)
          /\ \A k \in 1..Len(Store) :
                Count(last'.res, Store[k]) = Count(Store, Store[k])
          /\ \A j, k \in 1..Len(last'.res) :
                j < k => last'.res[j].id <= last'.res[k].id
          /\ (Store = <<>>) = (last'.out = "no tasks") ]_vars

\* show listed three records that the file holds by descending id
C21_ListedReversed ==
    /\ last.cmd = "show"
    /\ Len(Store) = 3
    /\ Store[1].id > Store[2].id
    /\ Store[2].id > Store[3].id
    /\ last.res[1] = Store[3]

---------------------------------------------------------------------------
(* C22 *)

\* C22, as claimed: the first add leaves the same single line in the file
\* whether the file was missing or was there and empty: the line core.add
\* makes of an empty store, the description, the labels and the status asked
\* for.
C22_MissingFileAsEmpty ==
    (Added /\ Len(file) = 1 /\ Len(hist) = 1) =>
        file = << core_add(<<>>, Val(last.details), last.labels,
                           IF IsNone(last.status) THEN Suspended
                           ELSE Val(last.status),
                           <<>>).line >>

---------------------------------------------------------------------------
(* C23 *)

\* C23: a command whose prompt the operator answers with Ctrl+C leaves the
\* task file and historique.txt as they were.
C23_InterruptWritesNothing ==
    [][ ( /\ last'.script # <<>>
          /\ last'.script[Len(last'.script)] = Interrupt )
        => ( /\ ~last'.wrote
             /\ ~last'.logged
             /\ exists' = exists
             /\ file' = file
             /\ hist' = hist ) ]_vars

\* the operator answered the overwrite question of add_options with Ctrl+C
C23_OverwriteInterrupted ==
    /\ last.cmd = "add_options"
    /\ last.asked
    /\ last.script = << Interrupt >>
    /\ Len(Store) = 2

---------------------------------------------------------------------------
(* C24 *)

\* C24, as claimed: a command whose prompt the operator answers with Ctrl+C
\* ends with a message of its own, no exception leaving it.
C24_InterruptHandled ==
    ( /\ last.script # <<>>
      /\ last.script[Len(last.script)] = Interrupt )
    => ( /\ last.raised = ""
         /\ last.out \in {"cancelled", "not found"} )

---------------------------------------------------------------------------
(* C25 *)

\* C25, as claimed: a modify whose description is the one the record has,
\* with no status or with the status the record has, prints "no change" and
\* writes neither the task file nor historique.txt.
C25_NoChangeNoWrite ==
    [][ ( /\ last'.cmd = "modify"
          /\ last'.found
          /\ ~IsNone(last'.details)
          /\ LET rec == Store[FirstIndex(Store, IntVal(last'.id))]
             IN  /\ Val(last'.details) = rec.desc
                 /\ IsNone(last'.status) \/ last'.status = rec.state )
        => ( /\ last'.out = "no change"
             /\ ~last'.wrote
             /\ file' = file
             /\ hist' = hist ) ]_vars

---------------------------------------------------------------------------
(* C26 *)

\* C26: a command that writes the task file appends one entry to
\* historique.txt and a command that does not write it appends none; the
\* entry of a command other than add is the line of the record of the given
\* id as the store held it before the command.
C26_OneEntryPerWrite ==
    [][ /\ file' # file => last'.wrote
        /\ IF last'.wrote
           THEN /\ Len(hist') = Len(hist) + 1
                /\ SubSeq(hist', 1, Len(hist)) = hist
                /\ last'.cmd # "add" =>
                      LET rec == Store[FirstIndex(Store, IntVal(last'.id))]
                      IN  /\ ParseLine(hist'[Len(hist')].line) = <<rec>>
                          /\ last'.old = Some(rec)
           ELSE hist' = hist ]_vars

\* the entry of an rmLabel holds the two labels the record had
C26_LabelsBeforeRemoval ==
    /\ last.cmd = "rmLabel"
    /\ last.wrote
    /\ Len(OldRecord.lab) = 2
    /\ Len(NewRecord.lab) = 1
    /\ ParseLine(hist[Len(hist)].line) = <<OldRecord>>

---------------------------------------------------------------------------
(* C29 *)

\* the commands that change one record
OneRecordCmds == {"modify", "add_options", "rmLabel", "clearLabel", "rmDep"}

\* new holds as many records as old, with the same ids in the same places,
\* and the same records but for the one of id x
FrameOf(old, new, x) ==
    /\ Len(new) = Len(old)
    /\ \A k \in 1..Len(old) :
          /\ new[k].id = old[k].id
          /\ old[k].id # x => new[k] = old[k]

\* C29: a modify, add_options, rmLabel, clearLabel or rmDep that finds its
\* record returns a store, and leaves a file, with the records of the other
\* ids as they were, as many records in the same order, and the id of its
\* record unchanged.
C29_OtherRecordsKept ==
    [][ (last'.cmd \in OneRecordCmds /\ last'.found)
        => /\ FrameOf(Store, last'.res, IntVal(last'.id))
           /\ FrameOf(Store, parse_tasks(file'), IntVal(last'.id)) ]_vars

\* an rmDep of a record that another record, which has a dependency, follows
C29_DependentRecordKept ==
    /\ last.cmd = "rmDep"
    /\ last.found
    /\ Len(Store) = 2
    /\ OldRecord.id = Store[1].id
    /\ ~IsNone(Store[2].dep)

---------------------------------------------------------------------------
(* C27 *)

\* the record of id x in a store depends on the record of id y
DependsOn(store, x, y) ==
    \E k \in 1..Len(store) : store[k].id = x /\ store[k].dep = Some(y)

\* C27: an add_options that gives a record without a dependency a dependency
\* on itself, or on a record that depends on it, is carried out: the record
\* is found and the file holds the dependency.
C27_CycleAccepted ==
    [][ ( /\ exists
          /\ last'.cmd = "add_options"
          /\ IsInt(last'.id)
          /\ IntVal(last'.id) \in Ids(Store)
          /\ ~IsNone(last'.depArg)
          /\ IsNone(Store[FirstIndex(Store, IntVal(last'.id))].dep)
          /\ \/ Val(last'.depArg) = IntVal(last'.id)
             \/ DependsOn(Store, Val(last'.depArg), IntVal(last'.id)) )
        => ( /\ last'.found
             /\ last'.out = "options added"
             /\ DependsOn(parse_tasks(file'), IntVal(last'.id),
                           Val(last'.depArg)) ) ]_vars

\* a store of two records that depend on each other
C27_TwoRecordCycle ==
    /\ Len(Store) = 2
    /\ Store[1].id # Store[2].id
    /\ DependsOn(Store, Store[1].id, Store[2].id)
    /\ DependsOn(Store, Store[2].id, Store[1].id)

---------------------------------------------------------------------------
(* C28 *)

\* both invocations read the task file before either wrote it, and both
\* have written
BothReadThenWrote ==
    /\ last.cmd = "race"
    /\ Len(last.order) = 4
    /\ last.order[1].did = "read"
    /\ last.order[2].did = "read"

\* C28, as claimed: the file then holds what the later writer alone would
\* have left from what it read.
C28_LaterWriterWins ==
    BothReadThenWrote =>
        LET p == last.order[4].p
        IN  file = RaceWritten(last.op[p], Val(last.tasks[p]), Val(last.tasks[p]))

---------------------------------------------------------------------------
(* C30 *)

\* C30, as claimed: rm of src/codes, given the id of a record of the store,
\* returns found = True, the other records in their order, and the record
\* of that id as old_task.
C30_CodesRmKeepsOthers ==
    ( /\ last.cmd = "codes rm"
      /\ IsInt(last.id)
      /\ IntVal(last.id) \in Ids(codes_parse_tasks(file)) )
    => LET store == codes_parse_tasks(file)
           Kept(t) == t.id # IntVal(last.id)
       IN  /\ last.raised = ""
           /\ last.found
           /\ last.res = SelectSeq(store, Kept)
           /\ last.old = Some(store[FirstIndex(store, IntVal(last.id))])

=============================================================================
